---- MODULE Spec2Model ----
(***************************************************************************)
(* Model of the scrypt mask brute-forcer: the odometer candidate generator *)
(* (generatePasswords), the worker pool (worker), the completion goroutine *)
(* and the driving select loop of main.                                    *)
(*                                                                         *)
(* Strings are sequences of one-character strings; a mask symbol that is   *)
(* not in the charset table is written "x".  Every access to shared memory *)
(* (channel operation, atomic load/add/CAS, WaitGroup operation) is one    *)
(* step; computation on goroutine-local data is folded into the step that  *)
(* precedes it.  When main returns the process exits and no goroutine      *)
(* takes another step.                                                     *)
(***************************************************************************)
EXTENDS Integers, Sequences, FiniteSets, TLC

\* ------------------------------------------------------------------ bounds
MaxMaskLen == 2
MaxSpace == 10
GenMaxSpace == 620
MaxWorkers == 2
MaxCap == 1
MaxKeyLen == 2

\* ------------------------------------------------------- program constants
PasswordsCap == 10000
ResultCap == 1
SaltLen == 16

\* uint64 arithmetic is arithmetic modulo 2^64.  Every integer TLC can hold is
\* below 2^31 (it stops with an overflow error beyond that), so within the
\* bounds of this model the reduction leaves its argument as it is.
U64(x) == x

\* ------------------------------------------------------------ charset table
CharsetL ==
  << "q","w","e","r","t","y","u","i","o","p","a","s","d","f","g","h","j","k",
     "l","z","x","c","v","b","n","m" >>

CharsetU ==
  << "Q","W","E","R","T","Y","U","I","O","P","A","S","D","F","G","H","J","K",
     "L","Z","X","C","V","B","N","M" >>

CharsetD ==
  << "1","2","3","4","5","6","7","8","9","0" >>

CharsetS ==
  << "!","@","#","$","%","^","&","*","(",")","_","+","-","=","[","]","{","}",
     "|",";",":",",",".","<",">","?" >>

CharsetA == CharsetL \o CharsetU \o CharsetD

\* an unrecognised symbol falling through to the digits
MutGetCharsetDefault(m) ==
  CASE m = "a" -> CharsetA
    [] m = "l" -> CharsetL
    [] m = "u" -> CharsetU
    [] m = "s" -> CharsetS
    [] OTHER   -> CharsetD

getCharset(m) ==
  CASE m = "a" -> CharsetA
    [] m = "d" -> CharsetD
    [] m = "l" -> CharsetL
    [] m = "u" -> CharsetU
    [] m = "s" -> CharsetS
    [] OTHER   -> << >>

MaskSymbols == {"a", "d", "l", "u", "s", "x"}

\* ------------------------------------------------ calculateTotalCombinations
RECURSIVE TotalFrom(_, _, _)
TotalFrom(mask, i, total) ==
  IF i > Len(mask) THEN total
  ELSE TotalFrom(mask, i + 1, U64(total * Len(getCharset(mask[i]))))

\* a loop that stops one position early
MutTotalSkipsLast(mask) ==
  TotalFrom(SubSeq(mask, 1, Len(mask) - 1), 1, 1)

calculateTotalCombinations(mask) == TotalFrom(mask, 1, 1)

\* --------------------------------------------------- generatePasswords parts
\* charsets[i] = getCharset(mask[i])
Charsets(mask) == [i \in 1..Len(mask) |-> getCharset(mask[i])]

\* the validation loop returns early at the first empty charset
MaskValid(mask) == \A i \in 1..Len(mask) : Charsets(mask)[i] # << >>

\* password[i] = charsets[i][ind[i]]   (ind is 0-based in the code)
BuildPassword(mask, ind) ==
  [i \in 1..Len(mask) |-> Charsets(mask)[i][ind[i] + 1]]

\* the carry loop: from the rightmost position while carry is set
RECURSIVE CarryFrom(_, _, _)
CarryFrom(mask, ind, i) ==
  IF i < 1 THEN [ind |-> ind, carry |-> TRUE]
  ELSE IF ind[i] + 1 < Len(Charsets(mask)[i])
       THEN [ind |-> [ind EXCEPT ![i] = ind[i] + 1], carry |-> FALSE]
       ELSE CarryFrom(mask, [ind EXCEPT ![i] = 0], i - 1)

\* a carry loop that runs from the leftmost position to the right
RECURSIVE MutCarryLeftFrom(_, _, _)
MutCarryLeftFrom(mask, ind, i) ==
  IF i > Len(ind) THEN [ind |-> ind, carry |-> TRUE]
  ELSE IF ind[i] + 1 < Len(Charsets(mask)[i])
       THEN [ind |-> [ind EXCEPT ![i] = ind[i] + 1], carry |-> FALSE]
       ELSE MutCarryLeftFrom(mask, [ind EXCEPT ![i] = 0], i + 1)

MutIncrementLeftFirst(mask, ind) == MutCarryLeftFrom(mask, ind, 1)

\* a carry that forgets ind[i] = 0
RECURSIVE MutCarryNoResetFrom(_, _, _)
MutCarryNoResetFrom(mask, ind, i) ==
  IF i < 1 THEN [ind |-> ind, carry |-> TRUE]
  ELSE IF ind[i] + 1 < Len(Charsets(mask)[i])
       THEN [ind |-> [ind EXCEPT ![i] = ind[i] + 1], carry |-> FALSE]
       ELSE MutCarryNoResetFrom(mask, ind, i - 1)

MutIncrementNoReset(mask, ind) == MutCarryNoResetFrom(mask, ind, Len(ind))

\* a carry test that wraps one index early: ind[i] < len(charsets[i]) - 1
RECURSIVE MutCarryFrom(_, _, _)
MutCarryFrom(mask, ind, i) ==
  IF i < 1 THEN [ind |-> ind, carry |-> TRUE]
  ELSE IF ind[i] + 1 < Len(Charsets(mask)[i]) - 1
       THEN [ind |-> [ind EXCEPT ![i] = ind[i] + 1], carry |-> FALSE]
       ELSE MutCarryFrom(mask, [ind EXCEPT ![i] = 0], i - 1)

MutIncrementWrapsEarly(mask, ind) == MutCarryFrom(mask, ind, Len(ind))

Increment(mask, ind) == CarryFrom(mask, ind, Len(ind))

\* ------------------------------------------------------ the record format
Digits10 == << "0", "1", "2", "3", "4", "5", "6", "7", "8", "9" >>
HexChars == << "0", "1", "2", "3", "4", "5", "6", "7", "8", "9",
               "a", "b", "c", "d", "e", "f" >>
HexUpper == << "0", "1", "2", "3", "4", "5", "6", "7", "8", "9",
               "A", "B", "C", "D", "E", "F" >>

\* the verb %d
RECURSIVE NatToStr(_)
NatToStr(n) ==
  IF n < 10 THEN << Digits10[n + 1] >>
  ELSE NatToStr(n \div 10) \o << Digits10[(n % 10) + 1] >>

FormatInt(n) == IF n < 0 THEN << "-" >> \o NatToStr(-n) ELSE NatToStr(n)

\* hex.EncodeToString: two lower-case digits per byte, high nibble first
EncodeToString(b) ==
  [i \in 1..(2 * Len(b)) |->
     IF i % 2 = 1 THEN HexChars[(b[(i + 1) \div 2] \div 16) + 1]
     ELSE HexChars[(b[i \div 2] % 16) + 1]]

\* fmt.Sprintf("%d*%d*%d*%d*%s*%s", N, r, p, keyLen, hex(salt), hex(hash))
Sprintf(N, r, p, keyLen, salt, hashValue) ==
  FormatInt(N) \o << "*" >> \o FormatInt(r) \o << "*" >> \o FormatInt(p)
    \o << "*" >> \o FormatInt(keyLen) \o << "*" >> \o EncodeToString(salt)
    \o << "*" >> \o EncodeToString(hashValue)

\* a trim that leaves its argument as it is
MutTrimNothing(s) == s

IsSpace(c) == c \in {" ", "\t", "\n", "\r"}

RECURSIVE TrimLeft(_)
TrimLeft(s) ==
  IF s # << >> /\ IsSpace(Head(s)) THEN TrimLeft(Tail(s)) ELSE s

RECURSIVE TrimRight(_)
TrimRight(s) ==
  IF s # << >> /\ IsSpace(s[Len(s)])
  THEN TrimRight(SubSeq(s, 1, Len(s) - 1)) ELSE s

\* strings.TrimSpace
TrimSpace(s) == TrimRight(TrimLeft(s))

\* strings.Split(s, "*")
RECURSIVE SplitFrom(_, _, _)
SplitFrom(s, cur, acc) ==
  IF s = << >> THEN Append(acc, cur)
  ELSE IF Head(s) = "*" THEN SplitFrom(Tail(s), << >>, Append(acc, cur))
       ELSE SplitFrom(Tail(s), Append(cur, Head(s)), acc)

Split(s) == SplitFrom(s, << >>, << >>)

IsDigit(c) == \E d \in 1..10 : Digits10[d] = c
DigitVal(c) == (CHOOSE d \in 1..10 : Digits10[d] = c) - 1

RECURSIVE StrToNat(_, _)
StrToNat(s, acc) ==
  IF s = << >> THEN acc ELSE StrToNat(Tail(s), (acc * 10) + DigitVal(Head(s)))

\* strconv.Atoi: an optional sign, then one or more decimal digits
Atoi(s) ==
  LET signed == s # << >> /\ Head(s) \in {"+", "-"}
      body == IF signed THEN Tail(s) ELSE s
  IN IF body = << >> \/ \E i \in 1..Len(body) : ~IsDigit(body[i])
     THEN [ok |-> FALSE, val |-> 0]
     ELSE [ok |-> TRUE,
           val |-> IF signed /\ Head(s) = "-" THEN -StrToNat(body, 0)
                   ELSE StrToNat(body, 0)]

IsHex(c) == \E d \in 1..16 : HexChars[d] = c \/ HexUpper[d] = c
HexVal(c) == (CHOOSE d \in 1..16 : HexChars[d] = c \/ HexUpper[d] = c) - 1

\* hex.DecodeString: an even number of hexadecimal digits of either case
DecodeString(s) ==
  IF Len(s) % 2 = 1 \/ \E i \in 1..Len(s) : ~IsHex(s[i])
  THEN [ok |-> FALSE, val |-> << >>]
  ELSE [ok |-> TRUE,
        val |-> [i \in 1..(Len(s) \div 2) |->
                   (HexVal(s[(2 * i) - 1]) * 16) + HexVal(s[2 * i])]]

NoData == [N |-> 0, R |-> 0, P |-> 0, KeyLen |-> 0, Salt |-> << >>, Hash |-> << >>]

\* parseFile, on the content of a file that could be read
parseFile(content) ==
  LET parts == Split(TrimSpace(content))
  IN IF Len(parts) # 6 THEN [err |-> "format", data |-> NoData]
     ELSE IF ~Atoi(parts[1]).ok THEN [err |-> "N", data |-> NoData]
     ELSE IF ~Atoi(parts[2]).ok THEN [err |-> "r", data |-> NoData]
     ELSE IF ~Atoi(parts[3]).ok THEN [err |-> "p", data |-> NoData]
     ELSE IF ~Atoi(parts[4]).ok THEN [err |-> "keyLen", data |-> NoData]
     ELSE IF ~DecodeString(parts[5]).ok THEN [err |-> "salt", data |-> NoData]
     ELSE IF ~DecodeString(parts[6]).ok THEN [err |-> "hash", data |-> NoData]
     ELSE [err |-> "none",
           data |-> [N |-> Atoi(parts[1]).val, R |-> Atoi(parts[2]).val,
                     P |-> Atoi(parts[3]).val, KeyLen |-> Atoi(parts[4]).val,
                     Salt |-> DecodeString(parts[5]).val,
                     Hash |-> DecodeString(parts[6]).val]]

\* scrypt.Key returns an error unless N is a power of two above 1 and the
\* other parameters are in range
RECURSIVE IsPow2(_)
IsPow2(n) == IF n < 1 THEN FALSE ELSE IF n = 1 THEN TRUE
             ELSE n % 2 = 0 /\ IsPow2(n \div 2)

KdfOk(N, r, p, keyLen) == N > 1 /\ IsPow2(N) /\ r > 0 /\ p > 0 /\ keyLen >= 0

PassChars == << "a", "b", "0", "1", "*", " " >>
CharCode(c) == CHOOSE k \in 1..Len(PassChars) : PassChars[k] = c

RECURSIVE SumBytes(_)
SumBytes(b) == IF b = << >> THEN 0 ELSE Head(b) + SumBytes(Tail(b))

RECURSIVE PassCode(_)
PassCode(pw) == IF pw = << >> THEN 7 ELSE (CharCode(Head(pw)) + (31 * PassCode(Tail(pw)))) % 251

\* scrypt.Key on accepted parameters: keyLen bytes that are a function of
\* the password, the salt and the cost parameters and of nothing else
Key(password, salt, N, r, p, keyLen) ==
  [i \in 1..keyLen |->
     (PassCode(password) + SumBytes(salt) + N + (3 * r) + (5 * p) + (29 * i)) % 256]

\* verifyPassword(password, data) on a parsed record
verifyPasswordData(password, data) ==
  IF ~KdfOk(data.N, data.R, data.P, data.KeyLen) THEN FALSE
  ELSE Key(password, data.Salt, data.N, data.R, data.P, data.KeyLen) = data.Hash

\* ------------------------------------------------------------------- state
VARIABLES
  mask,        \* *maskFlag
  numWorkers,  \* runtime.NumCPU()
  chanCap,     \* capacity of the passwords channel
  matching,    \* passwords p with scrypt.Key(p, data...) = data.Hash
  kdfErr,      \* scrypt.Key rejects data's N, r, p, keyLen
  total,       \* main: total
  genPc,       \* generatePasswords: "init", "send", "close", "wgdone", "done"
  ind,         \* generatePasswords: ind
  passwords,   \* contents of the passwords channel
  closed,      \* the passwords channel has been closed
  wg,          \* WaitGroup counter
  wPc,         \* worker: "recv", "load", "add", "cas", "send", "drain", "done"
  wPwd,        \* worker: password
  found,       \* atomic.Bool found
  tried,       \* atomic.Uint64 tried
  result,      \* contents of the result channel
  waitPc,      \* completion goroutine: "wait", "sleep", "send", "done"
  mainPc,      \* main: "select", "found", "notfound", "returned"
  mainPwd,     \* main: pwd
  reports,     \* terminal reports printed so far
  sentSet,     \* history: the strings sent on passwords
  sentCount,   \* history: number of sends on passwords
  closeCount,  \* history: number of close(ch) calls
  resultSends, \* history: number of sends on result
  verifyCalls, \* history: number of verifyPassword calls
  rt           \* the generation utility, then parseFile and one verification

config == << mask, numWorkers, chanCap, matching, kdfErr, total, rt >>
genVars == << genPc, ind, closeCount >>
hist == << sentSet, sentCount >>
workerVars == << wPc, wPwd >>
mainVars == << mainPc, mainPwd, reports >>
vars == << config, genVars, hist, passwords, closed, wg, workerVars, found,
           tried, result, resultSends, verifyCalls, waitPc, mainVars >>

NoPassword == << >>
NoRecord == [pc |-> "none"]
Workers == 1..numWorkers

\* every string of the mask's length whose i-th character is in the i-th charset
RECURSIVE CandidatesFrom(_, _)
CandidatesFrom(mask_, i) ==
  IF i > Len(mask_) THEN { << >> }
  ELSE { << c >> \o rest :
           c \in { getCharset(mask_[i])[k] : k \in 1..Len(getCharset(mask_[i])) },
           rest \in CandidatesFrom(mask_, i + 1) }

Candidates(mask_) == CandidatesFrom(mask_, 1)

\* product of the charset sizes, in the integers
RECURSIVE SpaceFrom(_, _)
SpaceFrom(mask_, i) ==
  IF i > Len(mask_) THEN 1 ELSE Len(getCharset(mask_[i])) * SpaceFrom(mask_, i + 1)

SearchSpace(mask_) == SpaceFrom(mask_, 1)

MasksUpTo(space) ==
  { m \in UNION { [1..n -> MaskSymbols] : n \in 1..MaxMaskLen } :
      SearchSpace(m) <= space }

\* the passwords the record's digest may have been derived from: the first and
\* the last string of the mask's space in the generator's order
Targets(mask_) ==
  IF MaskValid(mask_)
  THEN { BuildPassword(mask_, [i \in 1..Len(mask_) |-> 0]),
         BuildPassword(mask_, [i \in 1..Len(mask_) |-> Len(getCharset(mask_[i])) - 1]) }
  ELSE {}

\* the comparison made without looking at err
MutVerifyIgnoresErr(password) == password \in matching

\* bytes.Equal(hash, data.Hash), with err != nil giving false
verifyPassword(password) == IF kdfErr THEN FALSE ELSE password \in matching

\* the state main's loop starts in: every goroutine spawned, none has run
Start ==
  /\ total = calculateTotalCombinations(mask)
  /\ genPc = "init"
  /\ ind = << >>
  /\ passwords = << >>
  /\ closed = FALSE
  /\ wg = 1
  /\ wPc = [w \in Workers |-> "recv"]
  /\ wPwd = [w \in Workers |-> NoPassword]
  /\ found = FALSE
  /\ tried = 0
  /\ result = << >>
  /\ waitPc = "wait"
  /\ mainPc = "select"
  /\ mainPwd = NoPassword
  /\ reports = << >>
  /\ sentSet = {}
  /\ sentCount = 0
  /\ closeCount = 0
  /\ resultSends = 0
  /\ verifyCalls = 0

Init ==
  /\ mask \in MasksUpTo(MaxSpace)
  /\ numWorkers \in 1..MaxWorkers
  /\ chanCap \in (1..MaxCap) \cup {PasswordsCap}
  /\ matching \in SUBSET Targets(mask)
  /\ kdfErr \in BOOLEAN
  /\ kdfErr => matching = Targets(mask)
  /\ rt = NoRecord
  /\ Start

\* the generator study: larger masks, one worker, queues the generator fills
InitGen ==
  /\ mask \in MasksUpTo(GenMaxSpace)
  /\ numWorkers = 1
  /\ chanCap \in 1..MaxCap
  /\ matching \in SUBSET Targets(mask)
  /\ kdfErr = FALSE
  /\ rt = NoRecord
  /\ Start

\* the process is alive until main returns
Running == mainPc # "returned"

\* ------------------------------------------------------- generatePasswords
\* an abort that returns without closing the channel
MutGenStartNoClose ==
  /\ Running
  /\ genPc = "init"
  /\ IF MaskValid(mask)
     THEN /\ ind' = [i \in 1..Len(mask) |-> 0]
          /\ genPc' = "send"
     ELSE /\ ind' = ind
          /\ genPc' = "wgdone"
  /\ UNCHANGED << config, hist, closeCount, passwords, closed, wg, workerVars,
                  found, tried, result, resultSends, verifyCalls, waitPc,
                  mainVars >>

\* charsets, the validation loop, ind and password
GenStart ==
  /\ Running
  /\ genPc = "init"
  /\ IF MaskValid(mask)
     THEN /\ ind' = [i \in 1..Len(mask) |-> 0]
          /\ genPc' = "send"
     ELSE /\ ind' = ind
          /\ genPc' = "close"
  /\ UNCHANGED << config, hist, closeCount, passwords, closed, wg, workerVars,
                  found, tried, result, resultSends, verifyCalls, waitPc,
                  mainVars >>

GenSend ==
  /\ Running
  /\ genPc = "send"
  /\ Len(passwords) < chanCap
  /\ passwords' = Append(passwords, BuildPassword(mask, ind))
  /\ sentSet' = sentSet \cup { BuildPassword(mask, ind) }
  /\ sentCount' = sentCount + 1
  /\ ind' = Increment(mask, ind).ind
  /\ genPc' = IF Increment(mask, ind).carry THEN "close" ELSE "send"
  /\ UNCHANGED << config, closeCount, closed, wg, workerVars, found, tried,
                  result, resultSends, verifyCalls, waitPc, mainVars >>

GenClose ==
  /\ Running
  /\ genPc = "close"
  /\ closed' = TRUE
  /\ closeCount' = closeCount + 1
  /\ genPc' = "wgdone"
  /\ UNCHANGED << config, ind, hist, passwords, wg, workerVars, found, tried,
                  result, resultSends, verifyCalls, waitPc, mainVars >>

GenWgDone ==
  /\ Running
  /\ genPc = "wgdone"
  /\ wg' = wg - 1
  /\ genPc' = "done"
  /\ UNCHANGED << config, ind, closeCount, hist, passwords, closed, workerVars,
                  found, tried, result, resultSends, verifyCalls, waitPc,
                  mainVars >>

\* ------------------------------------------------------------------ worker
genSide == << genVars, hist, wg, waitPc, mainVars >>

\* a receive that leaves the candidate in the channel
MutWRecvPeeks(w) ==
  /\ Running
  /\ wPc[w] = "recv"
  /\ \/ /\ passwords # << >>
        /\ wPwd' = [wPwd EXCEPT ![w] = Head(passwords)]
        /\ passwords' = IF closed THEN Tail(passwords) ELSE passwords
        /\ wPc' = [wPc EXCEPT ![w] = "load"]
     \/ /\ passwords = << >>
        /\ closed
        /\ wPc' = [wPc EXCEPT ![w] = "done"]
        /\ UNCHANGED << wPwd, passwords >>
  /\ UNCHANGED << config, genSide, closed, found, tried, result, resultSends,
                  verifyCalls >>

\* for password := range passwords
WRecv(w) ==
  /\ Running
  /\ wPc[w] = "recv"
  /\ \/ /\ passwords # << >>
        /\ wPwd' = [wPwd EXCEPT ![w] = Head(passwords)]
        /\ passwords' = Tail(passwords)
        /\ wPc' = [wPc EXCEPT ![w] = "load"]
     \/ /\ passwords = << >>
        /\ closed
        /\ wPc' = [wPc EXCEPT ![w] = "done"]
        /\ UNCHANGED << wPwd, passwords >>
  /\ UNCHANGED << config, genSide, closed, found, tried, result, resultSends,
                  verifyCalls >>

\* a worker that returns on found.Load() without draining the channel
MutWLoadReturns(w) ==
  /\ Running
  /\ wPc[w] = "load"
  /\ IF found
     THEN /\ wPc' = [wPc EXCEPT ![w] = "done"]
          /\ wPwd' = [wPwd EXCEPT ![w] = NoPassword]
     ELSE /\ wPc' = [wPc EXCEPT ![w] = "add"]
          /\ wPwd' = wPwd
  /\ UNCHANGED << config, genSide, passwords, closed, found, tried, result,
                  resultSends, verifyCalls >>

\* tried.Add(1) placed before the found.Load() test
MutWLoadCounts(w) ==
  /\ Running
  /\ wPc[w] = "load"
  /\ IF found
     THEN /\ wPc' = [wPc EXCEPT ![w] = "drain"]
          /\ wPwd' = [wPwd EXCEPT ![w] = NoPassword]
          /\ tried' = U64(tried + 1)
     ELSE /\ wPc' = [wPc EXCEPT ![w] = "add"]
          /\ wPwd' = wPwd
          /\ tried' = tried
  /\ UNCHANGED << config, genSide, passwords, closed, found, result,
                  resultSends, verifyCalls >>

\* a worker that never looks at the flag
MutWLoadIgnoresFound(w) ==
  /\ Running
  /\ wPc[w] = "load"
  /\ wPc' = [wPc EXCEPT ![w] = "add"]
  /\ UNCHANGED << config, genSide, wPwd, passwords, closed, found, tried,
                  result, resultSends, verifyCalls >>

\* if found.Load()
WLoad(w) ==
  /\ Running
  /\ wPc[w] = "load"
  /\ IF found
     THEN /\ wPc' = [wPc EXCEPT ![w] = "drain"]
          /\ wPwd' = [wPwd EXCEPT ![w] = NoPassword]
     ELSE /\ wPc' = [wPc EXCEPT ![w] = "add"]
          /\ wPwd' = wPwd
  /\ UNCHANGED << config, genSide, passwords, closed, found, tried, result,
                  resultSends, verifyCalls >>

\* a drain loop that returns as soon as the channel is empty
MutWDrainLeavesEarly(w) ==
  /\ Running
  /\ wPc[w] = "drain"
  /\ \/ /\ passwords # << >>
        /\ passwords' = Tail(passwords)
        /\ wPc' = wPc
     \/ /\ passwords = << >>
        /\ wPc' = [wPc EXCEPT ![w] = "done"]
        /\ passwords' = passwords
  /\ UNCHANGED << config, genSide, wPwd, closed, found, tried, result,
                  resultSends, verifyCalls >>

\* for range passwords { }; return
WDrain(w) ==
  /\ Running
  /\ wPc[w] = "drain"
  /\ \/ /\ passwords # << >>
        /\ passwords' = Tail(passwords)
        /\ wPc' = wPc
     \/ /\ passwords = << >>
        /\ closed
        /\ wPc' = [wPc EXCEPT ![w] = "done"]
        /\ passwords' = passwords
  /\ UNCHANGED << config, genSide, wPwd, closed, found, tried, result,
                  resultSends, verifyCalls >>

\* tried.Add(1); if verifyPassword(password, data)
WAdd(w) ==
  /\ Running
  /\ wPc[w] = "add"
  /\ tried' = U64(tried + 1)
  /\ verifyCalls' = verifyCalls + 1
  /\ IF verifyPassword(wPwd[w])
     THEN /\ wPc' = [wPc EXCEPT ![w] = "cas"]
          /\ wPwd' = wPwd
     ELSE /\ wPc' = [wPc EXCEPT ![w] = "recv"]
          /\ wPwd' = [wPwd EXCEPT ![w] = NoPassword]
  /\ UNCHANGED << config, genSide, passwords, closed, found, result,
                  resultSends >>

\* a toggle in place of the compare-and-swap: found.Store(!found.Load())
MutWCasToggles(w) ==
  /\ Running
  /\ wPc[w] = "cas"
  /\ IF found = FALSE
     THEN /\ found' = TRUE
          /\ wPc' = [wPc EXCEPT ![w] = "send"]
          /\ wPwd' = wPwd
     ELSE /\ found' = FALSE
          /\ wPc' = [wPc EXCEPT ![w] = "done"]
          /\ wPwd' = [wPwd EXCEPT ![w] = NoPassword]
  /\ UNCHANGED << config, genSide, passwords, closed, tried, result,
                  resultSends, verifyCalls >>

\* the send made whether or not the compare-and-swap succeeded
MutWCasAlwaysSends(w) ==
  /\ Running
  /\ wPc[w] = "cas"
  /\ found' = TRUE
  /\ wPc' = [wPc EXCEPT ![w] = "send"]
  /\ wPwd' = wPwd
  /\ UNCHANGED << config, genSide, passwords, closed, tried, result,
                  resultSends, verifyCalls >>

\* if found.CompareAndSwap(false, true) ... return
WCas(w) ==
  /\ Running
  /\ wPc[w] = "cas"
  /\ IF found = FALSE
     THEN /\ found' = TRUE
          /\ wPc' = [wPc EXCEPT ![w] = "send"]
          /\ wPwd' = wPwd
     ELSE /\ found' = found
          /\ wPc' = [wPc EXCEPT ![w] = "done"]
          /\ wPwd' = [wPwd EXCEPT ![w] = NoPassword]
  /\ UNCHANGED << config, genSide, passwords, closed, tried, result,
                  resultSends, verifyCalls >>

\* result <- password; return
WSend(w) ==
  /\ Running
  /\ wPc[w] = "send"
  /\ Len(result) < ResultCap
  /\ result' = Append(result, wPwd[w])
  /\ resultSends' = resultSends + 1
  /\ wPc' = [wPc EXCEPT ![w] = "done"]
  /\ wPwd' = [wPwd EXCEPT ![w] = NoPassword]
  /\ UNCHANGED << config, genSide, passwords, closed, found, tried,
                  verifyCalls >>

\* ---------------------------------------------------- completion goroutine
poolSide == << config, genVars, hist, passwords, closed, workerVars, found,
               tried, result, resultSends, verifyCalls >>

\* wg.Wait()
WaitWg ==
  /\ Running
  /\ waitPc = "wait"
  /\ wg = 0
  /\ waitPc' = "sleep"
  /\ UNCHANGED << poolSide, wg, mainVars >>

\* time.Sleep(100 * time.Millisecond)
WaitSleep ==
  /\ Running
  /\ waitPc = "sleep"
  /\ waitPc' = "send"
  /\ UNCHANGED << poolSide, wg, mainVars >>

\* -------------------------------------------------------------- main's loop
\* case <-ticker.C: prints a progress line from locals and loops
MainTick ==
  /\ mainPc = "select"
  /\ UNCHANGED vars

\* case pwd := <-result
MainResult ==
  /\ mainPc = "select"
  /\ result # << >>
  /\ mainPwd' = Head(result)
  /\ result' = Tail(result)
  /\ mainPc' = "found"
  /\ UNCHANGED << config, genVars, hist, passwords, closed, workerVars, found,
                  tried, resultSends, verifyCalls, wg, waitPc, reports >>

\* the found case without its return: the loop selects again
MutMainFoundNoReturn ==
  /\ mainPc = "found"
  /\ reports' = Append(reports, [kind |-> "found", pwd |-> mainPwd, tried |-> tried])
  /\ mainPc' = "select"
  /\ UNCHANGED << poolSide, wg, waitPc, mainPwd >>

\* PASSWORD FOUND, Attempts: tried.Load(); return
MainFound ==
  /\ mainPc = "found"
  /\ reports' = Append(reports, [kind |-> "found", pwd |-> mainPwd, tried |-> tried])
  /\ mainPc' = "returned"
  /\ UNCHANGED << poolSide, wg, waitPc, mainPwd >>

\* case <-done, meeting the goroutine's done <- true
MainDone ==
  /\ mainPc = "select"
  /\ waitPc = "send"
  /\ waitPc' = "done"
  /\ mainPc' = "notfound"
  /\ UNCHANGED << poolSide, wg, mainPwd, reports >>

\* PASSWORD NOT FOUND, Tried: tried.Load(); return
MainNotFound ==
  /\ mainPc = "notfound"
  /\ reports' = Append(reports, [kind |-> "notfound", pwd |-> NoPassword, tried |-> tried])
  /\ mainPc' = "returned"
  /\ UNCHANGED << poolSide, wg, waitPc, mainPwd >>

\* ------------------------------------------------------------ specifications
Generator == GenStart \/ GenSend \/ GenClose \/ GenWgDone

Worker(w) == WRecv(w) \/ WLoad(w) \/ WDrain(w) \/ WAdd(w) \/ WCas(w) \/ WSend(w)

Completion == WaitWg \/ WaitSleep

Main == MainTick \/ MainResult \/ MainFound \/ MainDone \/ MainNotFound

Next == Generator \/ (\E w \in Workers : Worker(w)) \/ Completion \/ Main

Spec == Init /\ [][Next]_vars

SpecGen == InitGen /\ [][Next]_vars

\* The scheduler does not stop while some goroutine can take a step, and a
\* select with a ready case other than the ticker eventually takes one: a
\* step that changes the state eventually happens while one is possible.
Fairness == WF_vars(Next)

\* the liveness study: queues the generator can fill, a KDF that succeeds
InitFair ==
  /\ Init
  /\ chanCap \in 1..MaxCap
  /\ kdfErr = FALSE

FairSpec == InitFair /\ [][Next]_vars /\ Fairness

\* ------------------------------------------- generation utility and parser
NValues == {-1, 1, 2, 3, 16, 1024, 16384}
RValues == {0, 1, 8, 12}
PValues == {0, 1, 10}
KeyLens == 0..MaxKeyLen
PassValues == { << "a" >>, << "1", "0" >>, << "a", "*", " " >> }
SaltValues == { [i \in 1..SaltLen |-> 0],
                [i \in 1..SaltLen |-> ((41 * i) + 150) % 256] }

\* records that did not come from the utility: too few fields, a parameter
\* that is not a number, a salt of odd length, and a well-formed record with
\* upper-case digits and surrounding white space
OtherRecords ==
  { << "1", "6", "*", "1", "*", "1" >>,
    << "x", "*", "1", "*", "1", "*", "1", "*", "0", "0", "*", "0", "0" >>,
    << "2", "*", "1", "*", "1", "*", "1", "*", "a", "b", "c", "*", "0", "0" >>,
    << " ", "2", "*", "1", "*", "1", "*", "1", "*", "A", "B", "*", "0", "F", "\n" >> }

Record(pc, pass, N, r, p, keyLen, salt, toFile, content) ==
  [pc |-> pc, pass |-> pass, N |-> N, r |-> r, p |-> p, keyLen |-> keyLen,
   salt |-> salt, toFile |-> toFile, content |-> content,
   emitted |-> FALSE, res |-> [err |-> "none", data |-> NoData],
   match |-> FALSE]

\* a run of the utility with -pass and the four parameters given, then the
\* brute-forcer reading what it wrote; or the brute-forcer reading a file
\* written by other means
InitRecord ==
  /\ mask = << "d" >>
  /\ numWorkers = 1
  /\ chanCap = 1
  /\ matching = {}
  /\ kdfErr = FALSE
  /\ Start
  /\ \/ \E pass \in PassValues, N \in NValues, r \in RValues, p \in PValues,
           keyLen \in KeyLens, salt \in SaltValues, toFile \in BOOLEAN :
          rt = Record("gen", pass, N, r, p, keyLen, salt, toFile, << >>)
     \/ \E pass \in PassValues, content \in OtherRecords :
          rt = Record("written", pass, 0, 0, 0, 0, << >>, TRUE, content)

poolVars == << mask, numWorkers, chanCap, matching, kdfErr, total, genVars,
               hist, passwords, closed, wg, workerVars, found, tried, result,
               resultSends, verifyCalls, waitPc, mainVars >>

\* computeScryptHash fails: os.Exit(1)
GenKdfError ==
  /\ rt.pc = "gen"
  /\ ~KdfOk(rt.N, rt.r, rt.p, rt.keyLen)
  /\ rt' = [rt EXCEPT !.pc = "exit"]
  /\ UNCHANGED poolVars

\* os.WriteFile(*output, []byte(result)) or fmt.Println(result)
GenEmit ==
  /\ rt.pc = "gen"
  /\ KdfOk(rt.N, rt.r, rt.p, rt.keyLen)
  /\ LET hashValue == Key(rt.pass, rt.salt, rt.N, rt.r, rt.p, rt.keyLen)
         result_ == Sprintf(rt.N, rt.r, rt.p, rt.keyLen, rt.salt, hashValue)
     IN rt' = [rt EXCEPT !.pc = "written", !.emitted = TRUE,
                         !.content = IF rt.toFile THEN result_
                                     ELSE result_ \o << "\n" >>]
  /\ UNCHANGED poolVars

\* data, err := parseFile(*fileFlag)
ParseRecord ==
  /\ rt.pc = "written"
  /\ rt' = [rt EXCEPT !.pc = "parsed", !.res = parseFile(rt.content)]
  /\ UNCHANGED poolVars

\* parseFile returned an error: main prints it and calls os.Exit(1)
ParseRejected ==
  /\ rt.pc = "parsed"
  /\ rt.res.err # "none"
  /\ rt' = [rt EXCEPT !.pc = "exit"]
  /\ UNCHANGED poolVars

\* verifyPassword(password, data) with the password given to the utility
VerifyRecord ==
  /\ rt.pc = "parsed"
  /\ rt.res.err = "none"
  /\ rt' = [rt EXCEPT !.pc = "verified",
                      !.match = verifyPasswordData(rt.pass, rt.res.data)]
  /\ UNCHANGED poolVars

NextRecord ==
  GenKdfError \/ GenEmit \/ ParseRecord \/ ParseRejected \/ VerifyRecord

SpecRecord == InitRecord /\ [][NextRecord]_vars

\* ==================================================================== claims

\* s has the mask's length and its i-th character is in the i-th charset
InSpace(s) ==
  /\ Len(s) = Len(mask)
  /\ \A i \in 1..Len(mask) :
       \E k \in 1..Len(getCharset(mask[i])) : s[i] = getCharset(mask[i])[k]

\* C1: for a valid mask the generator sends, before closing the channel,
\* exactly SearchSpace strings: no string is sent twice, every string sent
\* has the mask's length and its i-th character in the i-th charset, and at
\* the close every such string has been sent (mask dd: 100 strings).
C1_GeneratorExactlyOnce ==
  /\ [](MaskValid(mask) =>
          /\ Cardinality(sentSet) = sentCount
          /\ closed => /\ sentCount = SearchSpace(mask)
                       /\ sentSet = Candidates(mask)
          /\ (closed /\ mask = << "d", "d" >>) => sentCount = 100)
  /\ [][MaskValid(mask) => \A s \in sentSet' \ sentSet : InSpace(s)]_vars

C1_Witness ==
  /\ mask = << "d", "l" >>
  /\ closed
  /\ sentCount = 260
  /\ << "0", "m" >> \in sentSet

UniqueTarget == ~kdfErr /\ Cardinality(matching) = 1

\* no candidate of the space passes verifyPassword
NoMatch == kdfErr \/ matching = {}

\* C2: when the digest was derived from a password of the mask's space, the
\* terminal report is the found report with that password and an attempt
\* count of at most SearchSpace; the not-found report is never printed.
C2_FoundReportWhenPresent ==
  UniqueTarget =>
    \A i \in 1..Len(reports) :
      /\ reports[i].kind = "found"
      /\ reports[i].pwd \in matching
      /\ reports[i].tried <= total

\* C3: when no candidate matches, the report is not-found and the attempt
\* count it prints equals SearchSpace.
C3_NotFoundCountsAll ==
  NoMatch =>
    \A i \in 1..Len(reports) :
      /\ reports[i].kind = "notfound"
      /\ reports[i].tried = total

\* C4: at most one value is ever sent on the result channel, and when some
\* candidate of the space matches, a run that has ended has sent exactly one.
C4_ExactlyOneResult ==
  /\ resultSends <= 1
  /\ (~kdfErr /\ matching # {} /\ mainPc = "returned") => resultSends = 1

\* C5: found starts false, only a worker's successful CompareAndSwap changes
\* it, and once true it stays true.
C5_FoundFlagWriteOnce ==
  /\ found = FALSE
  /\ [][ /\ found => found'
         /\ (found' # found) =>
              \E w \in 1..MaxWorkers :
                w \in Workers /\ wPc[w] = "cas" /\ wPc'[w] = "send" ]_vars

C5_Witness ==
  /\ found
  /\ \E w \in Workers : wPc[w] = "done" /\ wPwd[w] = NoPassword
  /\ \E w \in Workers : wPc[w] = "drain"
  /\ Cardinality(matching) = 2

HasUnknownSymbol(mask_) ==
  \E i \in 1..Len(mask_) : mask_[i] \notin {"a", "d", "l", "u", "s"}

C9_OneTerminalReport ==
  /\ <>(Len(reports) = 1)
  /\ [](Len(reports) <= 1)
  /\ [](\A i \in 1..Len(reports) : reports[i].kind \in {"found", "notfound"})

C9_Witness ==
  /\ Len(reports) = 1
  /\ reports[1].kind = "found"
  /\ mainPc = "returned"
  /\ numWorkers = MaxWorkers

\* a worker that will receive from the passwords channel again
LiveReader(w) ==
  \/ wPc[w] \in {"recv", "load", "drain"}
  \/ wPc[w] = "add" /\ ~verifyPassword(wPwd[w])

\* C10 as stated: for any number of workers, once found is true the
\* generator is never blocked on a full channel with no worker left to read.
C10_NeverStranded ==
  ~ ( /\ found
      /\ genPc = "send"
      /\ Len(passwords) = chanCap
      /\ \A w \in Workers : wPc[w] = "done" )

\* C10 amended: with more workers than matching candidates, once found is
\* true and until the channel is closed some worker is still receiving or
\* draining, so the generator's next send is always taken.
C10_SomeReaderRemains ==
  (found /\ numWorkers > Cardinality(matching) /\ ~closed) =>
    \E w \in Workers : LiveReader(w)

C10_Witness ==
  /\ found
  /\ genPc = "send"
  /\ Len(passwords) = chanCap
  /\ numWorkers = 2
  /\ \E w \in Workers : wPc[w] = "done"
  /\ \E w \in Workers : wPc[w] = "drain"

AllWorkersExited == \A w \in Workers : wPc[w] = "done"

\* C11: the send on done completes only after every worker has exited, so
\* no worker is still verifying or about to deliver when completion is
\* signalled.
C11_DoneAfterWorkers ==
  waitPc = "done" => AllWorkersExited

\* the weight of position i in the mixed-radix system of the mask: the
\* product of the charset sizes to its right
RECURSIVE Weight(_, _)
Weight(mask_, i) ==
  IF i >= Len(mask_) THEN 1
  ELSE Len(getCharset(mask_[i + 1])) * Weight(mask_, i + 1)

\* the digits of k, rightmost position least significant
Digits(mask_, k) ==
  [i \in 1..Len(mask_) |-> (k \div Weight(mask_, i)) % Len(getCharset(mask_[i]))]

CandidateAt(mask_, k) ==
  [i \in 1..Len(mask_) |-> getCharset(mask_[i])[Digits(mask_, k)[i] + 1]]

\* C13: the k-th string sent (k from 0) spells k in mixed radix, rightmost
\* position least significant and each position's radix its charset size;
\* the index vector always holds the digits of the number of strings sent,
\* and the generator leaves its loop exactly when that number is the
\* product of the radices (the increment carried out of the leftmost
\* position).
C13_OdometerOrder ==
  /\ [](MaskValid(mask) =>
          /\ genPc = "send" => /\ sentCount < SearchSpace(mask)
                               /\ ind = Digits(mask, sentCount)
          /\ genPc \in {"close", "wgdone", "done"} =>
               sentCount = SearchSpace(mask))
  /\ [][sentCount' = sentCount + 1 =>
          passwords'[Len(passwords')] = CandidateAt(mask, sentCount)]_vars

C13_Witness ==
  /\ mask = << "d", "l" >>
  /\ genPc = "send"
  /\ sentCount = 52
  /\ ind = << 2, 0 >>
  /\ << "2", "m" >> \in sentSet

\* C15: generatePasswords closes its channel exactly once, on normal
\* completion and on abort alike, and never sends after the close; a mask
\* with an unrecognised symbol at any position is rejected before the first
\* send, so the channel is closed with nothing sent.
C15_ClosesOnce ==
  /\ [](/\ closeCount <= 1
        /\ closed <=> closeCount = 1
        /\ genPc \in {"init", "send", "close"} => closeCount = 0
        /\ genPc \in {"wgdone", "done"} => closeCount = 1
        /\ HasUnknownSymbol(mask) => sentCount = 0 /\ genPc # "send")
  /\ [][closed => sentCount' = sentCount /\ Len(passwords') <= Len(passwords)]_vars

C15_Witness ==
  /\ mask = << "d", "x" >>
  /\ genPc = "done"
  /\ closeCount = 1
  /\ sentCount = 0

\* C14: the attempt counter equals the number of verifyPassword calls made
\* so far; a step in which a worker turns to draining (dropping the
\* candidate it received just before) or discards a queued candidate leaves
\* the counter as it is.
C14_CountsVerifiedOnly ==
  /\ [](tried = verifyCalls)
  /\ [][(\E w \in 1..MaxWorkers :
           /\ w \in Workers
           /\ \/ wPc[w] = "load" /\ wPc'[w] = "drain"
              \/ wPc[w] = "drain" /\ passwords' # passwords)
        => tried' = tried]_vars

C14_Witness ==
  /\ found
  /\ \E w \in Workers : wPc[w] = "drain"
  /\ tried = verifyCalls
  /\ tried > 0
  /\ sentCount - Len(passwords) >= tried + 2

\* C16: when scrypt.Key fails for the record's parameters, every
\* verification is a no-match: found stays false, nothing is sent on
\* result, a worker goes from each verification back to the channel and
\* exits only when the channel is closed and empty, the run can always go
\* on until main returns, and the only report is not-found.
C16_KdfFailureAbsorbed ==
  kdfErr =>
    /\ ~found
    /\ resultSends = 0
    /\ result = << >>
    /\ \A w \in Workers :
         /\ wPc[w] \in {"recv", "load", "add", "done"}
         /\ wPc[w] = "done" => closed /\ passwords = << >>
    /\ \A i \in 1..Len(reports) : reports[i].kind = "notfound"
    /\ mainPc = "returned" => Len(reports) = 1
    /\ Running => ENABLED <<Next>>_vars

C16_Witness ==
  /\ kdfErr
  /\ matching # {}
  /\ mainPc = "returned"
  /\ reports[1].kind = "notfound"
  /\ tried = 10
  /\ AllWorkersExited

\* C18: after found becomes true no worker passes the found.Load() test
\* again: the verifications still to come are those of the workers that
\* had already passed it, at most numWorkers - 1 of them at the
\* transition (the winner is past its own), tried grows by exactly one
\* for each of them, and a worker that has read found as true never
\* verifies again.
Adders == Cardinality({w \in Workers : wPc[w] = "add"})

C18_BoundedLag ==
  /\ [][/\ (~found /\ found') => (tried' = tried /\ Adders' <= numWorkers - 1)
        /\ found => /\ tried' + Adders' = tried + Adders
                    /\ verifyCalls' + Adders' = verifyCalls + Adders
                    /\ \A w \in 1..MaxWorkers :
                         (w \in Workers /\ wPc[w] # "add") => wPc'[w] # "add"
        /\ \A w \in 1..MaxWorkers :
             (w \in Workers /\ wPc[w] = "drain") =>
                (wPc'[w] \in {"drain", "done"} /\ found)]_vars
  /\ [](found => Adders <= numWorkers - 1)

C18_Witness ==
  /\ found
  /\ numWorkers = 2
  /\ \E w \in Workers : wPc[w] = "add" /\ wPwd[w] \notin matching
  /\ \E w \in Workers : wPc[w] = "done"
  /\ resultSends = 1

\* C19: a candidate taken from the channel is held by one worker only and
\* is no longer in the channel; with a valid mask and no matching
\* candidate every candidate sent is in the channel, in a worker's hands or
\* counted in tried, found stays false, and once all workers have exited
\* tried equals SearchSpace, whatever main has reported meanwhile.
Holding == {w \in Workers : wPc[w] \in {"load", "add"}}

C19_EachCandidateOnce ==
  MaskValid(mask) =>
    /\ \A w \in Workers :
         wPwd[w] # NoPassword =>
           /\ wPwd[w] \in sentSet
           /\ \A v \in Workers : v # w => wPwd[v] # wPwd[w]
           /\ \A i \in 1..Len(passwords) : passwords[i] # wPwd[w]
    /\ NoMatch =>
         /\ ~found
         /\ tried + Cardinality(Holding) + Len(passwords) = sentCount
         /\ AllWorkersExited => tried = SearchSpace(mask)

C19_Witness ==
  /\ MaskValid(mask)
  /\ matching = {}
  /\ numWorkers = 2
  /\ AllWorkersExited
  /\ tried = 10
  /\ ~found
  /\ mainPc = "notfound"

\* C20: a value on the result channel, in main's pwd or in a found report
\* is a candidate the generator sent and that verifyPassword accepts; at
\* most one send on result is ever made, the channel is empty whenever a
\* worker is about to send, and that send can be taken whatever main is
\* doing, as long as the process is alive.
Sound(s) == s \in sentSet /\ InSpace(s) /\ verifyPassword(s)

C17_AllExitAfterClose == closed ~> AllWorkersExited

\* C17: a worker returns only after its own verification matched (from
\* the compare-and-swap or from the send) or on the closed, empty channel;
\* after the close no live worker is ever blocked, and every worker
\* eventually exits unless main returns first, which ends the process.
C17_ExitReasons ==
  /\ [][\A w \in 1..MaxWorkers :
          (w \in Workers /\ wPc[w] # "done" /\ wPc'[w] = "done") =>
             \/ wPc[w] \in {"cas", "send"} /\ verifyPassword(wPwd[w])
             \/ wPc[w] \in {"recv", "drain"} /\ closed /\ passwords = << >>]_vars
  /\ [](closed /\ Running =>
          \A w \in Workers : wPc[w] = "done" \/ ENABLED Worker(w))
  /\ closed ~> (AllWorkersExited \/ mainPc = "returned")

C17_Witness ==
  /\ closed
  /\ numWorkers = 2
  /\ found
  /\ AllWorkersExited
  /\ Running

\* C12: whenever the utility's KDF call succeeds, the record it writes (to
\* the file, or to standard output with a newline) has six fields, parseFile
\* accepts it and returns the utility's N, r, p, keyLen, salt and digest,
\* and verifyPassword of the utility's password against the parsed record
\* is true.
C12_RecordRoundTrip ==
  rt.emitted =>
    /\ KdfOk(rt.N, rt.r, rt.p, rt.keyLen)
    /\ Len(Split(TrimSpace(rt.content))) = 6
    /\ rt.pc \in {"written", "parsed", "verified"}
    /\ rt.pc \in {"parsed", "verified"} =>
         /\ rt.res.err = "none"
         /\ rt.res.data = [N |-> rt.N, R |-> rt.r, P |-> rt.p,
                           KeyLen |-> rt.keyLen, Salt |-> rt.salt,
                           Hash |-> Key(rt.pass, rt.salt, rt.N, rt.r, rt.p,
                                        rt.keyLen)]
    /\ rt.pc = "verified" => rt.match

C12_Witness ==
  /\ rt.pc = "verified"
  /\ rt.emitted
  /\ rt.match
  /\ ~rt.toFile
  /\ rt.N = 16384
  /\ rt.r = 12
  /\ rt.keyLen = 2
  /\ rt.salt[1] > 160
  /\ rt.res.data.Salt = rt.salt

====
